---- MODULE Spec2Model ----
(***************************************************************************)
(* Model of etc/scripts/homebrew.py: the dependency walk of BinaryPackage  *)
(* (get_all_dependents / get_unique_dependents), Download.from_index, the  *)
(* catalog load of Repository.update_packages_index, install_files and     *)
(* check_installed_files, and the update_package run with its per-package  *)
(* process_package steps.                                                  *)
(***************************************************************************)
EXTENDS Integers, Sequences, FiniteSets, TLC

\* ------------------------------------------------------------------------
\* Bounds of the model
\* ------------------------------------------------------------------------
\* longest "dependencies" list of one index record
MaxDeps == 2
\* depth of nested get_all_dependents frames at which the interpreter
\* raises RecursionError (the interpreter's recursion limit, scaled down)
RecursionLimit == 6

\* names a package can have in the index; "C-git" is the key the "-git"
\* fallback of the dependency name "C" leads to
IndexKeys == {"A", "B", "C", "C-git"}
\* names a "dependencies" entry can declare
DepNames == {"A", "B", "C", "C-git"}
\* the package every call and every run starts from
RootName == "A"
\* names an ignore_deps argument can hold
IgnoreSets == SUBSET {"B", "C", "C-git"}

Range(s) == {s[i] : i \in 1..Len(s)}
IsInjective(s) == \A i, j \in 1..Len(s) : s[i] = s[j] => i = j

\* the "dependencies" lists a record of package p can declare
DepLists(p) ==
    {s \in UNION {[1..k -> DepNames \ {p}] : k \in 0..MaxDeps} : IsInjective(s)}

\* ------------------------------------------------------------------------
\* BinaryPackage.get_all_dependents / get_unique_dependents
\* ------------------------------------------------------------------------
\* A package is referred to by the key it is stored under in the packages
\* mapping (packages[binary.name] = binary), so a key is also its name.
NoError == "none"
KeyError == "KeyError"
RecursionError == "RecursionError"
\* result of a lookup that raised KeyError
Missing == "<missing>"

\* binary_packages[dep_name], falling back on binary_packages[dep_name + '-git']
lookup_mut_git_first(binary_packages, dep_name) ==
    IF (dep_name \o "-git") \in DOMAIN binary_packages THEN dep_name \o "-git"
    ELSE IF dep_name \in DOMAIN binary_packages THEN dep_name
    ELSE Missing
lookup(binary_packages, dep_name) ==
    IF dep_name \in DOMAIN binary_packages THEN dep_name
    ELSE IF (dep_name \o "-git") \in DOMAIN binary_packages THEN dep_name \o "-git"
    ELSE Missing

\* `if ignore_deps and dep_name in ignore_deps: continue`
is_ignored_mut_never(dep_name, ignore_deps) == FALSE
is_ignored(dep_name, ignore_deps) == ignore_deps # {} /\ dep_name \in ignore_deps

RECURSIVE walk_depends(_, _, _, _)
RECURSIVE get_all_dependents(_, _, _, _)
\* the `for dep_name, _dep_req in self.depends` loop of one generator frame,
\* over the entries `depends` it has not looked at yet: the packages it
\* yields, in order, the exception that ended it (if any), and how many
\* nested generator frames it came to stand on
walk_depends_mut_postorder(depends, binary_packages, ignore_deps, depth) ==
    IF depends = <<>> THEN [yielded |-> <<>>, err |-> NoError, frames |-> depth]
    ELSE IF is_ignored(Head(depends), ignore_deps)
    THEN walk_depends(Tail(depends), binary_packages, ignore_deps, depth)
    ELSE LET depp == lookup(binary_packages, Head(depends)) IN
         IF depp = Missing THEN [yielded |-> <<>>, err |-> KeyError, frames |-> depth]
         ELSE LET sub == get_all_dependents(depp, binary_packages, ignore_deps, depth + 1) IN
              IF sub.err # NoError
              THEN [yielded |-> sub.yielded, err |-> sub.err, frames |-> sub.frames]
              ELSE LET rest == walk_depends(Tail(depends), binary_packages,
                                            ignore_deps, depth) IN
                   [yielded |-> sub.yielded \o <<depp>> \o rest.yielded,
                    err |-> rest.err,
                    frames |-> IF sub.frames > rest.frames THEN sub.frames
                               ELSE rest.frames]
walk_depends(depends, binary_packages, ignore_deps, depth) ==
    IF depends = <<>> THEN [yielded |-> <<>>, err |-> NoError, frames |-> depth]
    ELSE IF is_ignored(Head(depends), ignore_deps)
    THEN walk_depends(Tail(depends), binary_packages, ignore_deps, depth)
    ELSE LET depp == lookup(binary_packages, Head(depends)) IN
         IF depp = Missing THEN [yielded |-> <<>>, err |-> KeyError, frames |-> depth]
         ELSE LET sub == get_all_dependents(depp, binary_packages, ignore_deps, depth + 1) IN
              IF sub.err # NoError
              THEN [yielded |-> <<depp>> \o sub.yielded, err |-> sub.err,
                    frames |-> sub.frames]
              ELSE LET rest == walk_depends(Tail(depends), binary_packages,
                                            ignore_deps, depth) IN
                   [yielded |-> <<depp>> \o sub.yielded \o rest.yielded,
                    err |-> rest.err,
                    frames |-> IF sub.frames > rest.frames THEN sub.frames
                               ELSE rest.frames]

\* the generator of package `name`, running as the depth-th nested frame
get_all_dependents(name, binary_packages, ignore_deps, depth) ==
    IF depth > RecursionLimit
    THEN [yielded |-> <<>>, err |-> RecursionError, frames |-> depth - 1]
    ELSE walk_depends(binary_packages[name].depends, binary_packages, ignore_deps, depth)

\* the insertion-ordered `unique` dict: first occurrence of each name
RECURSIVE unique_values(_, _)
unique_values_mut_keep_all(deps, unique) == unique \o deps
unique_values(deps, unique) ==
    IF deps = <<>> THEN unique
    ELSE unique_values(Tail(deps),
                       IF Head(deps) \in Range(unique) THEN unique
                       ELSE Append(unique, Head(deps)))

get_unique_dependents(name, binary_packages, ignore_deps) ==
    LET all == get_all_dependents(name, binary_packages, ignore_deps, 1) IN
    IF all.err # NoError THEN [result |-> <<>>, err |-> all.err, frames |-> all.frames]
    ELSE [result |-> unique_values(all.yielded, <<>>), err |-> NoError,
          frames |-> all.frames]

\* ------------------------------------------------------------------------
\* Download: a url or a file name is the sequence of its pieces, every "/"
\* a piece of its own
\* ------------------------------------------------------------------------
Slash == "/"

\* str.strip('/')
RECURSIVE lstrip(_)
lstrip(s) == IF s # <<>> /\ Head(s) = Slash THEN lstrip(Tail(s)) ELSE s
RECURSIVE rstrip(_)
rstrip(s) ==
    IF s # <<>> /\ s[Len(s)] = Slash THEN rstrip(SubSeq(s, 1, Len(s) - 1)) ELSE s
strip(s) == rstrip(lstrip(s))

\* str.rpartition(sep): the part before and the part after the last sep;
\* when sep does not occur the part before is empty and the part after is s
LastIndexOf(s, sep) ==
    LET at == {i \in 1..Len(s) : s[i] = sep} IN
    IF at = {} THEN 0 ELSE CHOOSE i \in at : \A j \in at : j <= i
rpartition_before(s, sep) ==
    IF LastIndexOf(s, sep) = 0 THEN <<>> ELSE SubSeq(s, 1, LastIndexOf(s, sep) - 1)
rpartition_after(s, sep) == SubSeq(s, LastIndexOf(s, sep) + 1, Len(s))

startswith(s, prefix) == Len(prefix) <= Len(s) /\ SubSeq(s, 1, Len(prefix)) = prefix
endswith(s, piece) == s # <<>> /\ s[Len(s)] = piece

\* what a call can give back besides a Download
None == [kind |-> "None"]
AssertionError == [kind |-> "AssertionError"]
NotCalled == [kind |-> "<not called>"]

\* Download.__init__(url, file_name)
Download(url, file_name) ==
    LET stripped == strip(url) IN
    [kind |-> "Download",
     url |-> stripped,
     file_name |-> IF file_name = <<>> THEN rpartition_after(stripped, Slash)
                   ELSE file_name]

GithubPrefix == <<"https:", Slash, Slash, "github.com">>

\* `commitish = revision or tag`
commitish_mut_prefer_tag(tag, revision) == IF tag # "" THEN tag ELSE revision
commitish(tag, revision) == IF revision # "" THEN revision ELSE tag

\* Download.from_index(url, tag, revision); a tag or a revision that is
\* None or empty is ""
Download_from_index(url, tag, revision) ==
    LET stripped == strip(url) IN
    IF tag = "" /\ revision = ""
    THEN Download(stripped, rpartition_after(stripped, Slash))
    ELSE IF ~startswith(stripped, GithubPrefix) THEN AssertionError
    ELSE IF tag = "" /\ revision = "" THEN None
    ELSE LET repo == IF endswith(stripped, ".git")
                     THEN rpartition_before(stripped, ".git") ELSE stripped
             rev == commitish(tag, revision)
         IN Download(repo \o <<Slash, "archive", Slash, rev, ".tar.gz">>,
                     rpartition_after(repo, Slash) \o <<"-", rev, ".tar.gz">>)

\* the urls, tags and revisions of the "urls" entries of the model
MkUrl(host, owner, repo, suffix, trailing) ==
    <<"https:", Slash, Slash, host, Slash, owner, Slash, repo>>
    \o (IF suffix = "" THEN <<>> ELSE <<suffix>>)
    \o (IF trailing THEN <<Slash>> ELSE <<>>)
Hosts == {"github.com", "example.org"}
Repos == {"y", "z"}
Suffixes == {"", ".git", ".tar.gz"}
Urls == {MkUrl(h, "x", r, sfx, t) : h \in Hosts, r \in Repos, sfx \in Suffixes,
                                   t \in BOOLEAN}
Tags == {"", "1.0.8"}
Revisions == {"", "abc123"}
SourceUrls == [url : Urls, tag : Tags, revision : Revisions]

\* ------------------------------------------------------------------------
\* Files: a path is the sequence of its components; a directory tree is
\* the set of its files and the set of its directories
\* ------------------------------------------------------------------------
EmptyTree == [files |-> {}, dirs |-> {}]

IsPrefix(a, b) == Len(a) <= Len(b) /\ SubSeq(b, 1, Len(a)) = a
Parents(path) == {SubSeq(path, 1, k) : k \in 1..(Len(path) - 1)}
\* os.path.isdir / os.path.exists / os.listdir of a path below the tree's root
IsDir(tree, path) == path = <<>> \/ path \in tree.dirs
Exists(tree, path) == IsDir(tree, path) \/ path \in tree.files
ListDir(tree, path) ==
    {q[Len(path) + 1] : q \in {r \in tree.files \cup tree.dirs :
                                  IsPrefix(path, r) /\ Len(r) > Len(path)}}
Basename(path) == path[Len(path)]

\* os.makedirs(path, exist_ok=True)
makedirs(tree, path) ==
    [tree EXCEPT !.dirs = @ \cup (IF path = <<>> THEN {} ELSE Parents(path) \cup {path})]

\* a path of a copy plan: its components and whether it is written with a
\* trailing separator
PlanPath(path, sep) == [path |-> path, sep |-> sep]

\* os.path.exists(os.path.join(root, p)): a path written with a trailing
\* separator exists only as a directory
ExistsAs(tree, p) == IF p.sep THEN IsDir(tree, p.path) ELSE Exists(tree, p.path)

\* distutils copy_tree(src, dst): dst and the directories of src are
\* created, the files of src are copied below dst
copy_tree(src_tree, src, dst_tree, dst) ==
    LET moved(r) == dst \o SubSeq(r, Len(src) + 1, Len(r))
        below(S) == {r \in S : IsPrefix(src, r) /\ Len(r) > Len(src)}
        made == makedirs(dst_tree, dst)
    IN [files |-> made.files \cup {moved(r) : r \in below(src_tree.files)},
        dirs  |-> made.dirs \cup {moved(r) : r \in below(src_tree.dirs)}]

\* shutil.copy2(src, dst): into dst when dst is a directory, else as dst
copy2_target(dst_tree, src, dst) ==
    IF IsDir(dst_tree, dst) THEN Append(dst, Basename(src)) ELSE dst

\* the copy plan install_files falls back on when given none
default_copies ==
    << [src |-> PlanPath(<<"lib">>, FALSE), dst |-> PlanPath(<<"lib">>, FALSE)],
       [src |-> PlanPath(<<"bin">>, FALSE), dst |-> PlanPath(<<"bin">>, FALSE)],
       [src |-> PlanPath(<<"share">>, FALSE), dst |-> PlanPath(<<"licenses">>, FALSE)] >>

\* a directory would have to be made at path, where a file is in the way
Blocked(tree, path) == \E q \in Parents(path) \cup {path} : q \in tree.files

\* one iteration of the loop of install_files raises: copy_tree or
\* os.makedirs cannot make the directory it needs
install_raises(extracted, installed, entry) ==
    /\ ExistsAs(extracted, entry.src)
    /\ IF IsDir(extracted, entry.src.path)
       THEN \/ Blocked(installed, entry.dst.path)
            \/ \E r \in extracted.dirs :
                  /\ IsPrefix(entry.src.path, r) /\ Len(r) > Len(entry.src.path)
                  /\ (entry.dst.path \o SubSeq(r, Len(entry.src.path) + 1, Len(r)))
                        \in installed.files
       ELSE Blocked(installed,
                    IF entry.dst.sep THEN entry.dst.path
                    ELSE SubSeq(entry.dst.path, 1, Len(entry.dst.path) - 1))

\* one iteration of the loop of install_files
install_one(extracted, installed, entry) ==
    IF ~ExistsAs(extracted, entry.src) THEN installed
    ELSE IF IsDir(extracted, entry.src.path)
    THEN copy_tree(extracted, entry.src.path, installed, entry.dst.path)
    ELSE LET parent == IF entry.dst.sep THEN entry.dst.path
                       ELSE SubSeq(entry.dst.path, 1, Len(entry.dst.path) - 1)
             made == makedirs(installed, parent)
         IN [made EXCEPT !.files =
                @ \cup {copy2_target(made, entry.src.path, entry.dst.path)}]

\* the loop of install_files: the install directory it leaves and the
\* exception that ended it, if any
RECURSIVE install_loop(_, _, _)
install_loop(extracted, installed, plan) ==
    IF plan = <<>> THEN [tree |-> installed, err |-> NoError]
    ELSE IF install_raises(extracted, installed, Head(plan))
    THEN [tree |-> installed,
          err |-> IF IsDir(extracted, Head(plan).src.path) THEN "DistutilsFileError"
                  ELSE "FileExistsError"]
    ELSE install_loop(extracted, install_one(extracted, installed, Head(plan)), Tail(plan))

\* install_files: the install directory after the copies of one package
install_files(extracted, installed, copies) ==
    install_loop(extracted, installed,
                 IF copies = <<>> THEN default_copies ELSE copies).tree
\* ... and the exception it raised
install_files_error(extracted, installed, copies) ==
    install_loop(extracted, installed,
                 IF copies = <<>> THEN default_copies ELSE copies).err

IllegalCopySpec == "IllegalCopySpec"
IncompleteInstallation == "IncompleteInstallation"

\* one iteration of the loop of check_installed_files: the paths it appends
\* to `missing`, and whether it raises the illegal-copy exception
check_one(installed, entry) ==
    LET dst_loc == entry.dst.path IN
    IF entry.dst.sep /\ ~entry.src.sep
    THEN \* file to dir
         [missing |-> IF Exists(installed, Append(dst_loc, Basename(entry.src.path)))
                      THEN <<>> ELSE <<Append(dst_loc, Basename(entry.src.path))>>,
          illegal |-> FALSE]
    ELSE IF entry.dst.sep /\ entry.src.sep
    THEN \* dir to dir
         [missing |-> IF ~IsDir(installed, dst_loc) THEN <<dst_loc>>
                      ELSE IF ListDir(installed, dst_loc) = {} THEN <<dst_loc>>
                      ELSE <<>>,
          illegal |-> FALSE]
    ELSE IF ~entry.dst.sep
    THEN \* file to file
         [missing |-> IF Exists(installed, dst_loc) THEN <<>> ELSE <<dst_loc>>,
          illegal |-> FALSE]
    ELSE IF entry.src.sep /\ ~entry.dst.sep
    THEN \* dir to file: illegal
         [missing |-> <<>>, illegal |-> TRUE]
    ELSE [missing |-> <<>>, illegal |-> FALSE]

\* the loop of check_installed_files over the entries left, `found` being
\* the `missing` list so far
RECURSIVE check_loop(_, _, _)
check_loop_mut_first_miss(installed, plan, found) ==
    IF plan = <<>> \/ found # <<>> THEN [missing |-> found, illegal |-> FALSE]
    ELSE LET one == check_one(installed, Head(plan)) IN
         IF one.illegal THEN [missing |-> found, illegal |-> TRUE]
         ELSE check_loop(installed, Tail(plan), found \o one.missing)
check_loop(installed, plan, found) ==
    IF plan = <<>> THEN [missing |-> found, illegal |-> FALSE]
    ELSE LET one == check_one(installed, Head(plan)) IN
         IF one.illegal THEN [missing |-> found, illegal |-> TRUE]
         ELSE check_loop(installed, Tail(plan), found \o one.missing)

\* check_installed_files: the `missing` list and the exception raised
check_installed_files(installed, copies) ==
    LET done == check_loop(installed, copies, <<>>) IN
    [missing |-> done.missing,
     err |-> IF done.illegal THEN IllegalCopySpec
             ELSE IF done.missing # <<>> THEN IncompleteInstallation
             ELSE NoError]

\* ------------------------------------------------------------------------
\* State
\* ------------------------------------------------------------------------
VARIABLES
    pc,               \* position of the running call
    name,             \* the package the call is about (the root package)
    binary_packages,  \* the packages mapping {name: BinaryPackage} in use
    ignore_deps,      \* the ignore_deps in effect
    resolved,         \* what get_unique_dependents returned or raised
    catalog,          \* the packages the repository's catalog parses into
    repo_packages,    \* Repository.packages, the mapping cached for the session
    fullversion,      \* the expected full version in effect ("": none)
    copies,           \* the copy plan in effect
    deletes,          \* the paths to delete below the install directory
    fixes,            \* the fixes in effect
    source_download_urls, \* per package, the urls of its source Downloads
    install_dir,      \* the tree of the install directory
    thirdparty_dir,   \* the file names in the thirdparty directory
    saved_sources,    \* the source snapshot directory: "none", "stale", "fresh"
    on_disk,          \* the packages whose extraction directory is on disk
    extracted_locations, \* update_package's list of extraction directories
    current,          \* the package process_package is working on
    caller,           \* which call of process_package: "root" or "dependency"
    dep_i,            \* position of the dependency loop in resolved.result
    src_i,            \* position of the loop over the package's source Downloads
    fix_i,            \* position of apply_fixes in fixes
    cwd,              \* the working directory of the process
    error,            \* the exception that ended the run
    events,           \* history: every fetch, extraction and installation issued
    trace,            \* history: the statements of update_package reached
    copied,           \* history: the files this run wrote to the install directory
    items,            \* the records of the catalog file, as json.load returns them
    source_url,       \* the arguments of a call of Download.from_index
    sdu,              \* what that call returned or raised
    extracted_dir,    \* the tree of the extraction directory install_files reads
    missing,          \* the `missing` list of check_installed_files
    original_cwd      \* the working directory pushd has saved

inputs == <<name, ignore_deps, catalog, fullversion, copies, deletes, fixes,
           items, source_url>>
disk == <<install_dir, thirdparty_dir, saved_sources, on_disk, cwd>>
locals == <<binary_packages, resolved, repo_packages, source_download_urls,
            extracted_locations, current, caller, dep_i, src_i, fix_i, error>>
history == <<events, trace, copied>>
vars == <<pc, inputs, disk, locals, history, sdu, extracted_dir, missing, original_cwd>>

\* stands for "no record of this key in the catalog"
Absent == [absent |-> TRUE]
NotResolved == [result |-> <<>>, err |-> "<not called>", frames |-> 0]
EmptyIndex == [k \in {} |-> Absent]

\* the url of the source Download the index record of p declares
SourceUrl(p) == "src-" \o p \o ".tar.gz"
\* a line of a formula file: the word it starts with, and the text between
\* the quotes as a stem and the extension it ends with
Line(directive, stem, ext) == [directive |-> directive, stem |-> stem, ext |-> ext]
good_extensions == {".tar.gz", ".tar.xz", ".tar.bz2", ".zip"}

\* the formula file in the bottle of p: the formula of A declares a patch
\* and the source archive of the index record, the formula of B declares
\* one patch archive on two lines, the others declare no archive
Formula(p) ==
    IF p = "A"
    THEN << Line("homepage", "https://example.org/A", ""),
            Line("url", "patch-A", ".zip"),
            Line("sha256", "0123", ""),
            Line("url", "src-A", ".tar.gz"),
            Line("url", "https://github.com/x/A", ".git") >>
    ELSE IF p = "B"
    THEN << Line("url", "patch-B", ".zip"),
            Line("url", "patch-B", ".zip") >>
    ELSE << Line("homepage", "https://example.org", "") >>

\* get_formula_source_urls: the urls of the lines that start with `url `
\* and end with a good extension, in file order
RECURSIVE get_formula_source_urls(_)
get_formula_source_urls(lines) ==
    IF lines = <<>> THEN <<>>
    ELSE (IF Head(lines).directive = "url" /\ Head(lines).ext \in good_extensions
          THEN <<Head(lines).stem \o Head(lines).ext>> ELSE <<>>)
         \o get_formula_source_urls(Tail(lines))

\* the archive urls get_formula_source_urls finds in the formula of p
FormulaUrls(p) == get_formula_source_urls(Formula(p))

\* the index record of one package: its dependency names, its full version
\* and whether download_urls has a Download for the osarch of the run
BinaryPackage(depends, pkg_fullversion, bottle) ==
    [depends |-> depends, fullversion |-> pkg_fullversion, bottle |-> bottle]

\* the packages mapping holding the given record of each key (or none)
MkIndex(recA, recB, recC, recG) ==
    LET all == [k \in IndexKeys |->
                   IF k = "A" THEN recA ELSE IF k = "B" THEN recB
                   ELSE IF k = "C" THEN recC ELSE recG]
    IN [k \in {q \in IndexKeys : "absent" \notin DOMAIN all[q]} |-> all[k]]

RecordsOf(p) == {BinaryPackage(d, "1.0", TRUE) : d \in DepLists(p)}

\* every index of the model: the root and any of the other packages
Indexes ==
    {MkIndex(recA, recB, recC, recG) :
        recA \in RecordsOf("A"),
        recB \in RecordsOf("B") \cup {Absent},
        recC \in RecordsOf("C") \cup {Absent},
        recG \in RecordsOf("C-git") \cup {Absent}}

\* ------------------------------------------------------------------------
\* The catalog file and Repository.update_packages_index
\* ------------------------------------------------------------------------
\* the keys BinaryPackage.from_index reads from a catalog record
RequiredKeys == {"name", "versions", "revision", "urls", "bottle", "dependencies"}

\* the "urls" entry of a record whose source is a plain archive link
ArchiveLink ==
    [url |-> MkUrl("example.org", "x", "y", ".tar.gz", FALSE), tag |-> "", revision |-> ""]

\* a complete catalog record; bottle: whether its bottle files have one
\* for the osarch of the run
Item(item_name, depends, version, revision, bottle, urls) ==
    [name |-> item_name, versions |-> version, revision |-> revision,
     urls |-> urls, bottle |-> bottle, dependencies |-> depends]

\* item without the entry of one key
Without(item, key) == [k \in (DOMAIN item) \ {key} |-> item[k]]

\* what BinaryPackage.from_index gives when it raises
Raised == [raised |-> TRUE]

\* BinaryPackage.from_index(item, repo): the package and the name it is
\* stored under, or the exception of a key the record lacks or of the
\* source url Download.from_index does not accept
BinaryPackage_from_index(item) ==
    IF ~(RequiredKeys \subseteq DOMAIN item) THEN Raised
    ELSE IF Download_from_index(item.urls.url, item.urls.tag, item.urls.revision)
               = AssertionError
    THEN Raised
    ELSE [raised |-> FALSE,
          name |-> item.name,
          package |-> BinaryPackage(
              item.dependencies,
              IF item.revision = 0 THEN item.versions ELSE item.versions \o "_1",
              item.bottle)]

\* packages[binary.name] = binary
store(packages, key, binary) ==
    [k \in (DOMAIN packages) \cup {key} |-> IF k = key THEN binary ELSE packages[k]]

\* the `for item in items` loop, with its try and bare except
RECURSIVE load_items(_, _)
load_items_mut_stop_at_bad(records, packages) ==
    IF records = <<>> THEN packages
    ELSE LET binary == BinaryPackage_from_index(Head(records)) IN
         IF binary.raised THEN packages
         ELSE load_items(Tail(records), store(packages, binary.name, binary.package))
load_items(records, packages) ==
    IF records = <<>> THEN packages
    ELSE LET binary == BinaryPackage_from_index(Head(records)) IN
         load_items(Tail(records),
                    IF binary.raised THEN packages
                    ELSE store(packages, binary.name, binary.package))

\* Repository.update_packages_index on a repository whose mapping is
\* `packages`: the mapping it leaves in self.packages, whether it fetched
\* the catalog, and the mapping it returns or the error it raises
update_packages_index(packages, records, outcome) ==
    IF DOMAIN packages # {}
    THEN [packages |-> packages, fetched |-> FALSE, err |-> NoError,
          returned |-> packages]
    ELSE IF outcome # "ok"
    THEN [packages |-> EmptyIndex, fetched |-> TRUE, err |-> outcome,
          returned |-> EmptyIndex]
    ELSE [packages |-> load_items(records, EmptyIndex), fetched |-> TRUE,
          err |-> NoError, returned |-> load_items(records, EmptyIndex)]

\* the catalog file an index is loaded from
KeyOrder == <<"A", "B", "C", "C-git">>
ItemsOf(index) ==
    LET present == SelectSeq(KeyOrder, LAMBDA k : k \in DOMAIN index) IN
    [i \in 1..Len(present) |->
        Item(present[i], index[present[i]].depends, index[present[i]].fullversion,
             0, index[present[i]].bottle, ArchiveLink)]

\* the tree a bottle of package p extracts to
Bottle(p) ==
    [dirs  |-> {<<p>>, <<p, "1.0">>, <<p, "1.0", "lib">>, <<p, "1.0", ".brew">>},
     files |-> {<<p, "1.0", "lib", "lib" \o p \o ".so">>,
                <<p, "1.0", ".brew", p \o ".rb">>}]

\* a copy plan taking the lib directory of every package to lib/
PlanLibDirs ==
    << [src |-> PlanPath(<<"A", "1.0", "lib">>, TRUE), dst |-> PlanPath(<<"lib">>, TRUE)],
       [src |-> PlanPath(<<"B", "1.0", "lib">>, TRUE), dst |-> PlanPath(<<"lib">>, TRUE)],
       [src |-> PlanPath(<<"C", "1.0", "lib">>, TRUE), dst |-> PlanPath(<<"lib">>, TRUE)],
       [src |-> PlanPath(<<"C-git", "1.0", "lib">>, TRUE), dst |-> PlanPath(<<"lib">>, TRUE)] >>
\* a copy plan that takes one library of the root and one of B, renamed
PlanFiles ==
    << [src |-> PlanPath(<<"A", "1.0", "lib", "libA.so">>, FALSE),
        dst |-> PlanPath(<<"lib">>, TRUE)],
       [src |-> PlanPath(<<"B", "1.0", "lib", "libB.so">>, FALSE),
        dst |-> PlanPath(<<"lib", "libB-a1.so">>, FALSE)] >>

\* what a previous run left in the install directory
StaleInstall == [dirs |-> {<<"lib">>}, files |-> {<<"lib", "old.so">>}]

Idle ==
    /\ resolved = NotResolved
    /\ source_download_urls = [p \in IndexKeys |-> <<SourceUrl(p)>>]
    /\ on_disk = {}
    /\ extracted_locations = <<>>
    /\ current = ""
    /\ caller = ""
    /\ dep_i = 0
    /\ src_i = 0
    /\ fix_i = 0
    /\ error = NoError
    /\ events = <<>>
    /\ trace = <<>>
    /\ copied = {}
    /\ sdu = NotCalled
    /\ missing = <<>>
    /\ original_cwd = ""

\* ------------------------------------------------------------------------
\* A call of root.get_unique_dependents(binary_packages, ignore_deps)
\* ------------------------------------------------------------------------
InitResolve ==
    /\ pc = "call"
    /\ name = RootName
    /\ binary_packages \in Indexes
    /\ catalog = binary_packages
    /\ repo_packages = binary_packages
    /\ ignore_deps \in IgnoreSets
    /\ fullversion = ""
    /\ copies = PlanLibDirs
    /\ deletes = <<>>
    /\ fixes = <<>>
    /\ install_dir = EmptyTree
    /\ thirdparty_dir = {}
    /\ saved_sources = "none"
    /\ items = ItemsOf(catalog)
    /\ source_url = ArchiveLink
    /\ extracted_dir = EmptyTree
    /\ cwd = "original"
    /\ Idle

CallResolve ==
    /\ pc = "call"
    /\ resolved' = get_unique_dependents(name, binary_packages, ignore_deps)
    /\ pc' = "returned"
    /\ UNCHANGED <<inputs, disk, history, binary_packages, repo_packages,
                   source_download_urls, extracted_locations, current, caller,
                   dep_i, src_i, fix_i, error>>
    /\ UNCHANGED <<sdu, extracted_dir, missing, original_cwd>>

NextResolve == CallResolve

SpecResolve == InitResolve /\ [][NextResolve]_vars

\* ------------------------------------------------------------------------
\* update_package and process_package
\* ------------------------------------------------------------------------
\* total number of dependency entries of the catalogs update_package is run on
MaxRunEdges == 3

FetchOutcomes == {"ok", "FetchFailure", "ChecksumMismatch"}

DepCount(index, k) == IF k \in DOMAIN index THEN Len(index[k].depends) ELSE 0
RunIndexes ==
    {ix \in Indexes :
        DepCount(ix, "A") + DepCount(ix, "B") + DepCount(ix, "C")
            + DepCount(ix, "C-git") <= MaxRunEdges}

\* A depends on B, B depends on C
ChainABC ==
    MkIndex(BinaryPackage(<<"B">>, "1.0", TRUE), BinaryPackage(<<"C">>, "1.0", TRUE),
            BinaryPackage(<<>>, "1.0", TRUE), Absent)
\* the same, but B has no bottle for the osarch of the run
ChainNoBottle ==
    MkIndex(BinaryPackage(<<"B">>, "1.0", TRUE), BinaryPackage(<<"C">>, "1.0", FALSE),
            BinaryPackage(<<>>, "1.0", TRUE), Absent)

\* the runs over every small catalog, with nothing else configured
InitGraphs ==
    /\ catalog \in RunIndexes
    /\ ignore_deps \in IgnoreSets
    /\ repo_packages = EmptyIndex
    /\ fullversion = ""
    /\ copies = PlanLibDirs
    /\ deletes = <<>>
    /\ fixes = <<>>
    /\ install_dir = EmptyTree
    /\ thirdparty_dir = {}
    /\ saved_sources = "none"
    /\ cwd = "original"

\* the runs over one catalog, with every configuration
InitConfigs ==
    /\ catalog \in {ChainABC, ChainNoBottle}
    /\ ignore_deps \in {{}, {"C"}}
    /\ repo_packages \in {EmptyIndex, catalog}
    /\ fullversion \in {"", "1.0", "2.0"}
    /\ copies \in {PlanLibDirs, PlanFiles}
    /\ deletes \in {<<>>, << <<"lib">> >>}
    /\ fixes \in {<<>>, <<"fix1", "fix2">>}
    /\ \/ install_dir = EmptyTree /\ thirdparty_dir = {} /\ saved_sources = "none"
       \/ /\ install_dir = StaleInstall
          /\ thirdparty_dir = {"old.tar.gz"}
          /\ saved_sources = "stale"
    /\ cwd \in {"original", "base_dir"}

Init ==
    /\ pc = "deletes"
    /\ name = RootName
    /\ binary_packages = EmptyIndex
    /\ Idle
    /\ (InitGraphs \/ InitConfigs)
    /\ items = ItemsOf(catalog)
    /\ source_url = ArchiveLink
    /\ extracted_dir = EmptyTree

\* the statement update_package goes to when the statement at p is done
step_after_mut_late_version(p) ==
    CASE p = "deletes" -> "index"
      [] p = "index" -> "thirdparty"
      [] p = "thirdparty" -> "saved_sources"
      [] p = "saved_sources" -> "process_root"
      [] p = "process_root" -> "version"
      [] p = "version" -> "resolve"
      [] p = "next_dep" -> "validate"
      [] p = "validate" -> "patch"
      [] p = "patch" -> "cleanup"
      [] p = "cleanup" -> "archive"
      [] p = "archive" -> "done"
step_after_mut_patch_first(p) ==
    CASE p = "deletes" -> "index"
      [] p = "index" -> "version"
      [] p = "version" -> "thirdparty"
      [] p = "thirdparty" -> "saved_sources"
      [] p = "saved_sources" -> "process_root"
      [] p = "process_root" -> "resolve"
      [] p = "next_dep" -> "patch"
      [] p = "patch" -> "validate"
      [] p = "validate" -> "cleanup"
      [] p = "cleanup" -> "archive"
      [] p = "archive" -> "done"
step_after(p) ==
    CASE p = "deletes" -> "index"
      [] p = "index" -> "version"
      [] p = "version" -> "thirdparty"
      [] p = "thirdparty" -> "saved_sources"
      [] p = "saved_sources" -> "process_root"
      [] p = "process_root" -> "resolve"
      [] p = "next_dep" -> "validate"
      [] p = "validate" -> "patch"
      [] p = "patch" -> "cleanup"
      [] p = "cleanup" -> "archive"
      [] p = "archive" -> "done"

Log(label) ==
    IF trace # <<>> /\ trace[Len(trace)] = label THEN trace ELSE Append(trace, label)
Event(op, pkg, what) == Append(events, [op |-> op, pkg |-> pkg, what |-> what])

\* shutil.rmtree(path) / os.remove(path)
rmtree(tree, path) ==
    [files |-> {r \in tree.files : ~IsPrefix(path, r)},
     dirs  |-> {r \in tree.dirs : ~IsPrefix(path, r)}]
remove(tree, path) == [tree EXCEPT !.files = @ \ {path}]

\* the `for deletable in deletes` loop
RECURSIVE delete_paths(_, _)
delete_paths(tree, paths) ==
    IF paths = <<>> THEN tree
    ELSE delete_paths(
            IF ~Exists(tree, Head(paths)) THEN tree
            ELSE IF IsDir(tree, Head(paths)) THEN rmtree(tree, Head(paths))
            ELSE remove(tree, Head(paths)),
            Tail(paths))

Deletes ==
    /\ pc = "deletes"
    /\ install_dir' = delete_paths(install_dir, deletes)
    /\ trace' = Log("deletes")
    /\ pc' = step_after("deletes")
    /\ UNCHANGED <<inputs, locals, events, copied,
                   thirdparty_dir, saved_sources, on_disk, cwd>>
    /\ UNCHANGED <<sdu, extracted_dir, missing, original_cwd>>

\* repository.update_packages_index(cache_dir)
UpdatePackagesIndex ==
    /\ pc = "index"
    /\ trace' = Log("index")
    /\ \E outcome \in {"ok", "IndexUnavailable"} :
          LET r == update_packages_index(repo_packages, items, outcome) IN
          /\ repo_packages' = r.packages
          /\ events' = IF r.fetched THEN Event("fetch_index", "", "") ELSE events
          /\ IF r.err = NoError
             THEN /\ binary_packages' = r.returned
                  /\ pc' = step_after("index")
                  /\ UNCHANGED error
             ELSE /\ pc' = "failed"
                  /\ error' = r.err
                  /\ UNCHANGED binary_packages
    /\ UNCHANGED <<inputs, disk, copied, resolved, source_download_urls,
                   extracted_locations, current, caller, dep_i, src_i, fix_i>>
    /\ UNCHANGED <<sdu, extracted_dir, missing, original_cwd>>

\* root_package = binary_packages[name] and the check of its full version
VersionCheck ==
    /\ pc = "version"
    /\ trace' = Log("version")
    /\ IF name \notin DOMAIN binary_packages
       THEN pc' = "failed" /\ error' = KeyError
       ELSE IF fullversion # "" /\ fullversion # binary_packages[name].fullversion
       THEN pc' = "failed" /\ error' = "VersionMismatch"
       ELSE pc' = step_after("version") /\ UNCHANGED error
    /\ UNCHANGED <<inputs, disk, events, copied, binary_packages, resolved,
                   repo_packages, source_download_urls, extracted_locations,
                   current, caller, dep_i, src_i, fix_i>>
    /\ UNCHANGED <<sdu, extracted_dir, missing, original_cwd>>

\* the cache directories are made, the thirdparty directory made and emptied
EmptyThirdparty ==
    /\ pc = "thirdparty"
    /\ thirdparty_dir' = {}
    /\ trace' = Log("thirdparty")
    /\ pc' = step_after("thirdparty")
    /\ UNCHANGED <<inputs, locals, events, copied,
                   install_dir, saved_sources, on_disk, cwd>>
    /\ UNCHANGED <<sdu, extracted_dir, missing, original_cwd>>

RemoveSavedSources ==
    /\ pc = "saved_sources"
    /\ saved_sources' = "none"
    /\ trace' = Log("saved_sources")
    /\ pc' = step_after("saved_sources")
    /\ UNCHANGED <<inputs, locals, events, copied,
                   install_dir, thirdparty_dir, on_disk, cwd>>
    /\ UNCHANGED <<sdu, extracted_dir, missing, original_cwd>>

\* process_package(package=root_package, ...) is called
StartRoot ==
    /\ pc = "process_root"
    /\ current' = name
    /\ caller' = "root"
    /\ events' = Event("process_package", name, copies)
    /\ trace' = Log("process_root")
    /\ pc' = "pp_fetch"
    /\ UNCHANGED <<inputs, disk, copied, binary_packages, resolved, repo_packages,
                   source_download_urls, extracted_locations, dep_i, src_i,
                   fix_i, error>>
    /\ UNCHANGED <<sdu, extracted_dir, missing, original_cwd>>

\* package.download_urls[osarch].fetch(dir_location=bin_cache_dir)
FetchBinary ==
    /\ pc = "pp_fetch"
    /\ IF ~binary_packages[current].bottle
       THEN pc' = "failed" /\ error' = KeyError /\ UNCHANGED events
       ELSE /\ events' = Event("fetch_binary", current, "")
            /\ \E outcome \in FetchOutcomes :
                  IF outcome = "ok" THEN pc' = "pp_extract" /\ UNCHANGED error
                  ELSE pc' = "failed" /\ error' = outcome
    /\ UNCHANGED <<inputs, disk, trace, copied, binary_packages, resolved,
                   repo_packages, source_download_urls, extracted_locations,
                   current, caller, dep_i, src_i, fix_i>>
    /\ UNCHANGED <<sdu, extracted_dir, missing, original_cwd>>

\* shared_utils.extract_in_place(fetched_binary_loc)
Extract ==
    /\ pc = "pp_extract"
    /\ events' = Event("extract", current, "")
    /\ \E outcome \in {"ok", "ExtractFailure"} :
          IF outcome = "ok"
          THEN on_disk' = on_disk \cup {current} /\ pc' = "pp_formulas"
               /\ extracted_dir' = Bottle(current)
               /\ UNCHANGED error
          ELSE pc' = "failed" /\ error' = outcome
               /\ UNCHANGED <<on_disk, extracted_dir>>
    /\ UNCHANGED <<inputs, trace, copied, binary_packages, resolved,
                   repo_packages, source_download_urls, extracted_locations,
                   current, caller, dep_i, src_i, fix_i,
                   install_dir, thirdparty_dir, saved_sources, cwd>>
    /\ UNCHANGED <<sdu, missing, original_cwd>>

\* BinaryPackage.add_formula_source_download_urls: known_urls is computed
\* once, before the urls of the formula are gone through
add_formula_source_download_urls(urls, found) ==
    urls \o SelectSeq(found, LAMBDA u : u \notin Range(urls))

\* the loop over the formula files of the bottle
Formulas ==
    /\ pc = "pp_formulas"
    /\ \E outcome \in {"ok", "FileNotFoundError"} :
          IF outcome = "ok"
          THEN /\ source_download_urls' =
                     [source_download_urls EXCEPT ![current] =
                         add_formula_source_download_urls(@, FormulaUrls(current))]
               /\ thirdparty_dir' = thirdparty_dir
                     \cup {current \o ".rb", current \o ".rb.ABOUT"}
               /\ src_i' = 1
               /\ pc' = "pp_sources"
               /\ UNCHANGED error
          ELSE /\ pc' = "failed"
               /\ error' = outcome
               /\ UNCHANGED <<source_download_urls, thirdparty_dir, src_i>>
    /\ UNCHANGED <<inputs, history, binary_packages, resolved, repo_packages,
                   extracted_locations, current, caller, dep_i, fix_i,
                   install_dir, saved_sources, on_disk, cwd>>
    /\ UNCHANGED <<sdu, extracted_dir, missing, original_cwd>>

\* one iteration of `for src_download in package.source_download_urls`
FetchSource ==
    /\ pc = "pp_sources"
    /\ src_i <= Len(source_download_urls[current])
    /\ LET url == source_download_urls[current][src_i] IN
       /\ events' = Event("fetch_source", current, url)
       /\ \E outcome \in FetchOutcomes :
             IF outcome = "ok"
             THEN /\ thirdparty_dir' = thirdparty_dir \cup {url, url \o ".ABOUT"}
                  /\ src_i' = src_i + 1
                  /\ UNCHANGED <<pc, error>>
             ELSE /\ pc' = "failed"
                  /\ error' = outcome
                  /\ UNCHANGED <<thirdparty_dir, src_i>>
    /\ UNCHANGED <<inputs, trace, copied, binary_packages, resolved,
                   repo_packages, source_download_urls, extracted_locations,
                   current, caller, dep_i, fix_i,
                   install_dir, saved_sources, on_disk, cwd>>
    /\ UNCHANGED <<sdu, extracted_dir, missing, original_cwd>>

\* install_files(...), the return of process_package and the append of the
\* extraction directory to extracted_locations
InstallFiles ==
    /\ pc = "pp_sources"
    /\ src_i > Len(source_download_urls[current])
    /\ install_dir' = install_files(extracted_dir, install_dir, copies)
    /\ copied' = copied \cup install_files(extracted_dir, EmptyTree, copies).files
    /\ events' = Event("install", current, "")
    /\ IF install_files_error(extracted_dir, install_dir, copies) # NoError
       THEN /\ pc' = "failed"
            /\ error' = install_files_error(extracted_dir, install_dir, copies)
            /\ UNCHANGED extracted_locations
       ELSE /\ extracted_locations' = Append(extracted_locations, current)
            /\ pc' = IF caller = "root" THEN step_after("process_root") ELSE "next_dep"
            /\ UNCHANGED error
    /\ UNCHANGED <<inputs, trace, binary_packages, resolved, repo_packages,
                   source_download_urls, current, caller, dep_i, src_i, fix_i,
                   thirdparty_dir, saved_sources, on_disk, cwd>>
    /\ UNCHANGED <<sdu, extracted_dir, missing, original_cwd>>

\* root_package.get_unique_dependents(binary_packages, ignore_deps)
Resolve ==
    /\ pc = "resolve"
    /\ trace' = Log("resolve")
    /\ LET r == get_unique_dependents(name, binary_packages, ignore_deps) IN
       /\ resolved' = r
       /\ IF r.err # NoError
          THEN pc' = "failed" /\ error' = r.err /\ UNCHANGED dep_i
          ELSE pc' = "next_dep" /\ dep_i' = 0 /\ UNCHANGED error
    /\ UNCHANGED <<inputs, disk, events, copied, binary_packages, repo_packages,
                   source_download_urls, extracted_locations, current, caller,
                   src_i, fix_i>>
    /\ UNCHANGED <<sdu, extracted_dir, missing, original_cwd>>

\* `for dependency in ...`: process_package is called on the next
\* dependency, or the loop ends
NextDependency ==
    /\ pc = "next_dep"
    /\ IF dep_i < Len(resolved.result)
       THEN /\ dep_i' = dep_i + 1
            /\ current' = resolved.result[dep_i + 1]
            /\ caller' = "dependency"
            /\ events' = Event("process_package", resolved.result[dep_i + 1], copies)
            /\ trace' = Log("process_dependency")
            /\ pc' = "pp_fetch"
       ELSE /\ pc' = step_after("next_dep")
            /\ UNCHANGED <<dep_i, current, caller, events, trace>>
    /\ UNCHANGED <<inputs, disk, copied, binary_packages, resolved, repo_packages,
                   source_download_urls, extracted_locations, src_i, fix_i, error>>
    /\ UNCHANGED <<sdu, extracted_dir, missing, original_cwd>>

\* check_installed_files(install_dir, copies, root_package)
Validate ==
    /\ pc = "validate"
    /\ trace' = Log("validate")
    /\ missing' = check_installed_files(install_dir, copies).missing
    /\ IF check_installed_files(install_dir, copies).err # NoError
       THEN pc' = "failed" /\ error' = check_installed_files(install_dir, copies).err
       ELSE pc' = step_after("validate") /\ UNCHANGED error
    /\ UNCHANGED <<inputs, disk, events, copied, binary_packages, resolved,
                   repo_packages, source_download_urls, extracted_locations,
                   current, caller, dep_i, src_i, fix_i>>
    /\ UNCHANGED <<sdu, extracted_dir, original_cwd>>

\* `if fixes: with pushd(install_dir):`
Patch ==
    /\ pc = "patch"
    /\ IF fixes = <<>>
       THEN pc' = step_after("patch") /\ UNCHANGED <<cwd, original_cwd, fix_i, trace>>
       ELSE /\ original_cwd' = cwd
            /\ cwd' = "install_dir"
            /\ fix_i' = 1 /\ pc' = "fix" /\ trace' = Log("patch")
    /\ UNCHANGED <<inputs, events, copied, binary_packages, resolved,
                   repo_packages, source_download_urls, extracted_locations,
                   current, caller, dep_i, src_i, error,
                   install_dir, thirdparty_dir, saved_sources, on_disk>>
    /\ UNCHANGED <<sdu, extracted_dir, missing>>

\* pushd: the `finally: os.chdir(original_cwd)`
pushd_finally_mut_no_restore(saved, now) == now
pushd_finally(saved, now) == saved

\* where apply_fixes is after fix i of n has ended with outcome: at the
\* next fix, left by the end of the loop, or left by the exception
after_fix_mut_ignore_failure(i, n, outcome) == IF i < n THEN "fix" ELSE "left"
after_fix(i, n, outcome) ==
    IF outcome # "ok" THEN "raised" ELSE IF i < n THEN "fix" ELSE "left"

\* one iteration of the loop of apply_fixes; leaving pushd, by the end of
\* the loop or by an exception, restores the working directory
ApplyFix ==
    /\ pc = "fix"
    /\ \E outcome \in {"ok", "PatchFailure"} :
          LET to == after_fix(fix_i, Len(fixes), outcome) IN
          /\ events' = Event("fix", fixes[fix_i], [cwd |-> cwd, outcome |-> outcome])
          /\ fix_i' = IF to = "fix" THEN fix_i + 1 ELSE fix_i
          /\ cwd' = IF to = "fix" THEN cwd ELSE pushd_finally(original_cwd, cwd)
          /\ pc' = IF to = "fix" THEN "fix"
                   ELSE IF to = "raised" THEN "failed" ELSE step_after("patch")
          /\ error' = IF to = "raised" THEN outcome ELSE error
    /\ UNCHANGED <<inputs, trace, copied, binary_packages, resolved,
                   repo_packages, source_download_urls, extracted_locations,
                   current, caller, dep_i, src_i,
                   install_dir, thirdparty_dir, saved_sources, on_disk>>
    /\ UNCHANGED <<sdu, extracted_dir, missing, original_cwd>>

\* `for exloc in extracted_locations`: the extraction directories are removed
Cleanup ==
    /\ pc = "cleanup"
    /\ on_disk' = on_disk \ Range(extracted_locations)
    /\ trace' = Log("cleanup")
    /\ pc' = step_after("cleanup")
    /\ UNCHANGED <<inputs, locals, events, copied,
                   install_dir, thirdparty_dir, saved_sources, cwd>>
    /\ UNCHANGED <<sdu, extracted_dir, missing, original_cwd>>

\* copy_tree(base_dir, saved_sources_dir)
Archive ==
    /\ pc = "archive"
    /\ saved_sources' = "fresh"
    /\ trace' = Log("archive")
    /\ pc' = step_after("archive")
    /\ UNCHANGED <<inputs, locals, events, copied,
                   install_dir, thirdparty_dir, on_disk, cwd>>
    /\ UNCHANGED <<sdu, extracted_dir, missing, original_cwd>>

Next ==
    \/ Deletes
    \/ UpdatePackagesIndex
    \/ VersionCheck
    \/ EmptyThirdparty
    \/ RemoveSavedSources
    \/ StartRoot
    \/ FetchBinary
    \/ Extract
    \/ Formulas
    \/ FetchSource
    \/ InstallFiles
    \/ Resolve
    \/ NextDependency
    \/ Validate
    \/ Patch
    \/ ApplyFix
    \/ Cleanup
    \/ Archive

Spec == Init /\ [][Next]_vars

\* ------------------------------------------------------------------------
\* Calls of install_files and check_installed_files on one install directory
\* ------------------------------------------------------------------------
\* longest copy plan
MaxPlan == 2

\* what the extraction directory can hold: a library directory with a file
\* and a README, the same with the directory empty, or nothing
ExtractedTrees ==
    { [dirs |-> {<<"lib">>}, files |-> {<<"lib", "a.so">>, <<"README">>}],
      [dirs |-> {<<"lib">>}, files |-> {<<"README">>}],
      EmptyTree }
\* what the install directory can hold before the calls
InstallTrees ==
    { EmptyTree, StaleInstall, [dirs |-> {<<"lib">>}, files |-> {}] }

PlanSrcs ==
    { PlanPath(<<"lib">>, TRUE), PlanPath(<<"lib">>, FALSE),
      PlanPath(<<"lib", "a.so">>, FALSE), PlanPath(<<"README">>, FALSE) }
PlanDsts ==
    { PlanPath(<<"lib">>, TRUE), PlanPath(<<"lib">>, FALSE),
      PlanPath(<<"licenses">>, TRUE), PlanPath(<<"licenses", "README">>, FALSE) }
\* a copy plan is a dict: its source keys are distinct
Plans ==
    {plan \in UNION {[1..k -> [src : PlanSrcs, dst : PlanDsts]] : k \in 0..MaxPlan} :
        \A i, j \in 1..Len(plan) : plan[i].src = plan[j].src => i = j}

InitFiles ==
    /\ pc = "install"
    /\ extracted_dir \in ExtractedTrees
    /\ install_dir \in InstallTrees
    /\ copies \in Plans
    /\ name = RootName
    /\ binary_packages = EmptyIndex
    /\ catalog = EmptyIndex
    /\ repo_packages = EmptyIndex
    /\ items = <<>>
    /\ source_url = ArchiveLink
    /\ ignore_deps = {}
    /\ fullversion = ""
    /\ deletes = <<>>
    /\ fixes = <<>>
    /\ thirdparty_dir = {}
    /\ saved_sources = "none"
    /\ cwd = "original"
    /\ Idle

\* install_files(extracted_dir, install_dir, ..., copies)
CallInstallFiles ==
    /\ pc = "install"
    /\ install_dir' = install_files(extracted_dir, install_dir, copies)
    /\ error' = install_files_error(extracted_dir, install_dir, copies)
    /\ pc' = IF install_files_error(extracted_dir, install_dir, copies) = NoError
             THEN "installed" ELSE "failed"
    /\ events' = Event("install", "", "")
    /\ UNCHANGED <<inputs, trace, copied, binary_packages, resolved, repo_packages,
                   source_download_urls, extracted_locations, current, caller,
                   dep_i, src_i, fix_i, thirdparty_dir, saved_sources, on_disk, cwd>>
    /\ UNCHANGED <<sdu, extracted_dir, missing, original_cwd>>

\* the destination of one entry of the plan is deleted after the copy
DeleteDestination ==
    /\ pc = "installed"
    /\ deletes = <<>>
    /\ \E i \in 1..Len(copies) :
          /\ Exists(install_dir, copies[i].dst.path)
          /\ deletes' = <<copies[i].dst.path>>
          /\ install_dir' = delete_paths(install_dir, <<copies[i].dst.path>>)
    /\ UNCHANGED <<pc, name, ignore_deps, catalog, fullversion, copies, fixes,
                   items, source_url, locals, history,
                   thirdparty_dir, saved_sources, on_disk, cwd>>
    /\ UNCHANGED <<sdu, extracted_dir, missing, original_cwd>>

\* check_installed_files(install_dir, copies, package)
CallCheckInstalledFiles ==
    /\ pc \in {"install", "installed"}
    /\ missing' = check_installed_files(install_dir, copies).missing
    /\ error' = check_installed_files(install_dir, copies).err
    /\ pc' = "checked"
    /\ events' = Event("check", "", "")
    /\ UNCHANGED <<inputs, disk, trace, copied, binary_packages, resolved,
                   repo_packages, source_download_urls, extracted_locations,
                   current, caller, dep_i, src_i, fix_i>>
    /\ UNCHANGED <<sdu, extracted_dir, original_cwd>>

NextFiles == CallInstallFiles \/ DeleteDestination \/ CallCheckInstalledFiles

SpecFiles == InitFiles /\ [][NextFiles]_vars

\* ------------------------------------------------------------------------
\* Calls of Download.from_index
\* ------------------------------------------------------------------------
InitDownload ==
    /\ pc = "call"
    /\ source_url \in SourceUrls
    /\ name = RootName
    /\ binary_packages = EmptyIndex
    /\ catalog = EmptyIndex
    /\ repo_packages = EmptyIndex
    /\ items = <<>>
    /\ ignore_deps = {}
    /\ fullversion = ""
    /\ copies = <<>>
    /\ deletes = <<>>
    /\ fixes = <<>>
    /\ install_dir = EmptyTree
    /\ extracted_dir = EmptyTree
    /\ thirdparty_dir = {}
    /\ saved_sources = "none"
    /\ cwd = "original"
    /\ Idle

\* sdu = Download.from_index(**source_url)
CallDownloadFromIndex ==
    /\ pc = "call"
    /\ sdu' = Download_from_index(source_url.url, source_url.tag, source_url.revision)
    /\ pc' = "returned"
    /\ UNCHANGED <<inputs, disk, locals, history, extracted_dir, missing, original_cwd>>

NextDownload == CallDownloadFromIndex

SpecDownload == InitDownload /\ [][NextDownload]_vars

\* ------------------------------------------------------------------------
\* Calls of update_packages_index on one Repository
\* ------------------------------------------------------------------------
\* longest catalog file, and most calls on the repository
MaxItems == 3
MaxCalls == 3

\* a source that is a repository url with a tag, on github and elsewhere
GithubLink ==
    [url |-> MkUrl("github.com", "x", "y", ".git", FALSE), tag |-> "1.0.8",
     revision |-> "abc123"]
ForeignLink ==
    [url |-> MkUrl("example.org", "x", "y", ".git", FALSE), tag |-> "1.0.8",
     revision |-> ""]

\* the records a catalog of the model is made of: complete ones, one
\* without bottle entry, one without name, one whose source url
\* Download.from_index rejects
CatalogItems ==
    { Item("A", <<"B">>, "1.0", 0, TRUE, ArchiveLink),
      Item("A", <<>>, "1.0", 1, TRUE, GithubLink),
      Item("B", <<>>, "1.0", 0, TRUE, ArchiveLink),
      Without(Item("B", <<"C">>, "1.0", 0, TRUE, ArchiveLink), "bottle"),
      Without(Item("A", <<>>, "1.0", 0, TRUE, ArchiveLink), "name"),
      Item("C", <<>>, "1.0", 0, TRUE, ForeignLink) }
Catalogs == UNION {[1..k -> CatalogItems] : k \in 0..MaxItems}

InitIndex ==
    /\ pc = "call"
    /\ items \in Catalogs
    /\ repo_packages = EmptyIndex
    /\ binary_packages = EmptyIndex
    /\ catalog = load_items(items, EmptyIndex)
    /\ name = RootName
    /\ source_url = ArchiveLink
    /\ ignore_deps = {}
    /\ fullversion = ""
    /\ copies = <<>>
    /\ deletes = <<>>
    /\ fixes = <<>>
    /\ install_dir = EmptyTree
    /\ extracted_dir = EmptyTree
    /\ thirdparty_dir = {}
    /\ saved_sources = "none"
    /\ cwd = "original"
    /\ Idle

\* the calls of update_packages_index that have ended
IndexCalls == SelectSeq(events, LAMBDA e : e.op = "update_packages_index")

\* repository.update_packages_index(cache_dir), one more time
CallUpdatePackagesIndex ==
    /\ pc = "call"
    /\ Len(IndexCalls) < MaxCalls
    /\ \E outcome \in {"ok", "IndexUnavailable"} :
          LET r == update_packages_index(repo_packages, items, outcome) IN
          /\ repo_packages' = r.packages
          /\ binary_packages' = IF r.err = NoError THEN r.returned ELSE binary_packages
          /\ error' = r.err
          /\ events' =
                (IF r.fetched THEN Event("fetch_index", "", "") ELSE events)
                \o << [op |-> "update_packages_index", pkg |-> "",
                       what |-> [err |-> r.err, returned |-> r.returned]] >>
    /\ UNCHANGED <<pc, inputs, disk, trace, copied, resolved, source_download_urls,
                   extracted_locations, current, caller, dep_i, src_i, fix_i>>
    /\ UNCHANGED <<sdu, extracted_dir, missing, original_cwd>>

NextIndex == CallUpdatePackagesIndex

SpecIndex == InitIndex /\ [][NextIndex]_vars

\* ------------------------------------------------------------------------
\* The dependency graph of an index, stated without the walk
\* ------------------------------------------------------------------------
\* the key a declared dependency name stands for (Missing: unknown)
KeyOf(index, dep) ==
    IF dep \in DOMAIN index THEN dep
    ELSE IF (dep \o "-git") \in DOMAIN index THEN dep \o "-git"
    ELSE Missing

\* the dependency names package p declares that are not in ignore
Declared(index, ignore, p) == Range(index[p].depends) \ ignore

\* the packages p depends on directly, through names not in ignore
Succ(index, ignore, p) ==
    {KeyOf(index, d) : d \in Declared(index, ignore, p)} \ {Missing}

RECURSIVE ReachSet(_, _, _)
ReachSet(index, ignore, S) ==
    LET S2 == S \cup UNION {Succ(index, ignore, p) : p \in S} IN
    IF S2 = S THEN S ELSE ReachSet(index, ignore, S2)

\* the packages reachable from p by a non-empty path of dependency edges
\* none of whose declared names is in ignore
Reachable(index, ignore, p) == ReachSet(index, ignore, Succ(index, ignore, p))

\* no package of the index depends on itself, directly or not
Acyclic(index) == \A p \in DOMAIN index : p \notin Reachable(index, {}, p)

\* a cycle can be reached from p (p itself may be on it)
CycleReachable(index, ignore, p) ==
    \E q \in Reachable(index, ignore, p) \cup {p} : q \in Reachable(index, ignore, q)

Returned == pc = "returned" /\ resolved.err = NoError

DependencyCycle == "dependency cycle detected"

\* a package the walk can reach declares a name that no key stands for
UnknownDeclared ==
    \E p \in {name} \cup Reachable(binary_packages, ignore_deps, name) :
       \E d \in Declared(binary_packages, ignore_deps, p) :
          KeyOf(binary_packages, d) = Missing

\* C4 as stated: when a cycle can be reached from the root (through names
\* the walk follows, all of them known), the resolution ends with the fatal
\* "dependency cycle detected" error and returns no list, and it does not
\* recurse without bound: a walk that is guarded never stands on more
\* nested frames than the index has packages.
C4_AsStated ==
    (pc = "returned" /\ CycleReachable(binary_packages, ignore_deps, name)
        /\ ~UnknownDeclared)
        => /\ resolved.err = DependencyCycle
           /\ resolved.frames <= Cardinality(DOMAIN binary_packages)

\* the first-discovery order of a depth-first pre-order walk that never
\* enters a package twice
RECURSIVE PreOrder(_, _, _, _)
PreOrder(depends, index, ignore, visited) ==
    IF depends = <<>> THEN visited
    ELSE LET k == KeyOf(index, Head(depends)) IN
         IF Head(depends) \in ignore \/ k = Missing \/ k \in Range(visited)
         THEN PreOrder(Tail(depends), index, ignore, visited)
         ELSE PreOrder(Tail(depends), index, ignore,
                       PreOrder(index[k].depends, index, ignore, Append(visited, k)))

\* s with every occurrence but the first of each element removed
RECURSIVE FirstOccurrences(_, _)
FirstOccurrences(s, i) ==
    IF i > Len(s) THEN <<>>
    ELSE (IF \E j \in 1..(i - 1) : s[j] = s[i] THEN <<>> ELSE <<s[i]>>)
         \o FirstOccurrences(s, i + 1)

\* C2: the returned list is the first-discovery order of the depth-first
\* pre-order walk of the declared dependency lists, and it is the walk's
\* output with only the first occurrence of each package kept.
C2_PreOrderFirstDiscovery ==
    Returned =>
        /\ resolved.result =
              PreOrder(binary_packages[name].depends, binary_packages, ignore_deps, <<>>)
        /\ resolved.result =
              FirstOccurrences(
                 get_all_dependents(name, binary_packages, ignore_deps, 1).yielded, 1)

\* C2 witness: the first dependency's own dependency comes before the next
\* sibling, a package met twice is kept once, and the list is not sorted.
C2_Witness ==
    /\ Returned
    /\ binary_packages[name].depends = <<"C", "B">>
    /\ resolved.result = <<"C", "C-git", "B">>
    /\ Len(get_all_dependents(name, binary_packages, ignore_deps, 1).yielded) > 3

\* ------------------------------------------------------------------------
\* Properties of update_package runs
\* ------------------------------------------------------------------------
Ended == pc \in {"done", "failed"}

\* the packages of the events of kind op, in the order they happened
PkgsOf(op) ==
    LET sel == SelectSeq(events, LAMBDA e : e.op = op)
    IN [i \in 1..Len(sel) |-> sel[i].pkg]

\* the packages process_package was called on, in call order
Processed == PkgsOf("process_package")

\* C3: a dependency name in ignore_deps is neither visited nor expanded:
\* every package the run touches is the root or is reachable from it through
\* declared names that are not in ignore_deps; with A -> B -> C and
\* ignore_deps = {C} the run processes A, then B, and nothing of C is ever
\* fetched, extracted or installed.
C3_IgnoredNeverVisited ==
    /\ \A i \in 1..Len(events) :
          events[i].op \in {"process_package", "fetch_binary", "extract",
                            "fetch_source", "install"}
             => events[i].pkg \in {name} \cup Reachable(catalog, ignore_deps, name)
    /\ (catalog = ChainABC /\ ignore_deps = {"C"}) =>
          /\ \A i \in 1..Len(events) : events[i].pkg # "C"
          /\ IsPrefix(Processed, <<"A", "B">>)
          /\ (pc = "done" => Processed = <<"A", "B">>)

\* C3 witness: the run of the scenario has ended well, after A and then B,
\* and C would have been reached had it not been ignored.
C3_Witness ==
    /\ catalog = ChainABC /\ ignore_deps = {"C"}
    /\ pc = "done"
    /\ PkgsOf("install") = <<"A", "B">>
    /\ "C" \in Reachable(catalog, {}, name)

\* the packages the walk enters when it ends without error
Walked == {name} \cup Range(resolved.result)

\* C5: a declared name that is not ignored stands for the package of that
\* exact name when the index has it, and for the package name + "-git" only
\* when it has not; when neither key is in the index the resolution raises
\* the unknown-dependency error (KeyError), returns no list, and the run
\* fails without any dependency having been processed.
C5_ExactThenGitElseFatal ==
    resolved # NotResolved =>
        /\ resolved.err = NoError =>
              \A p \in Walked : \A d \in Declared(binary_packages, ignore_deps, p) :
                 IF d \in DOMAIN binary_packages
                 THEN d \in Range(resolved.result)
                 ELSE /\ (d \o "-git") \in DOMAIN binary_packages
                      /\ (d \o "-git") \in Range(resolved.result)
        /\ resolved.err = KeyError => UnknownDeclared
        /\ (UnknownDeclared /\ ~CycleReachable(binary_packages, ignore_deps, name))
              => resolved.err = KeyError
        /\ resolved.err = KeyError =>
              /\ resolved.result = <<>>
              /\ pc = "failed" /\ error = KeyError
              /\ Processed = <<name>>

\* C5 witness: the walk went through the "-git" fallback of C, then met a
\* name that no key stands for, and the run has failed after the root only.
C5_Witness ==
    /\ resolved.err = KeyError /\ pc = "failed"
    /\ "C" \notin DOMAIN binary_packages
    /\ get_all_dependents(name, binary_packages, ignore_deps, 1).yielded = <<"C-git">>
    /\ PkgsOf("install") = <<name>>

\* the phase of the orchestrator a statement of update_package belongs to
\* ("": none of the named phases)
PhaseOf(label) ==
    CASE label \in {"deletes", "thirdparty", "saved_sources"} -> "CLEAN_TARGETS"
      [] label = "index" -> "RESOLVE_INDEX"
      [] label = "process_root" -> "MATERIALIZE_ROOT"
      [] label = "process_dependency" -> "MATERIALIZE_DEPENDENCIES"
      [] label = "validate" -> "VALIDATE"
      [] label = "patch" -> "PATCH"
      [] label = "cleanup" -> "CLEANUP_TEMP"
      [] label = "archive" -> "ARCHIVE_SOURCES"
      [] OTHER -> ""

\* the phases a sequence of statements goes through, a phase that goes on
\* named once
RECURSIVE PhasesOf(_, _)
PhasesOf(labels, last) ==
    IF labels = <<>> THEN <<>>
    ELSE LET ph == PhaseOf(Head(labels)) IN
         IF ph = "" \/ ph = last THEN PhasesOf(Tail(labels), last)
         ELSE <<ph>> \o PhasesOf(Tail(labels), ph)

Phases == PhasesOf(trace, "")

\* the phases after the cleaning and the loading of the index
LaterPhases ==
    <<"MATERIALIZE_ROOT">>
    \o (IF resolved.result # <<>> THEN <<"MATERIALIZE_DEPENDENCIES">> ELSE <<>>)
    \o <<"VALIDATE">>
    \o (IF fixes # <<>> THEN <<"PATCH">> ELSE <<>>)
    \o <<"CLEANUP_TEMP", "ARCHIVE_SOURCES">>

FetchOps == {"fetch_index", "fetch_binary", "fetch_source"}

\* C7 as stated: when the version error is raised no fetch of any kind has
\* been issued in the run.
C7_AsStated ==
    error = "VersionMismatch" => \A i \in 1..Len(events) : events[i].op \notin FetchOps

\* C7 (amended): when the version error is raised no binary and no source
\* of any package has been fetched, nothing has been extracted or installed;
\* the one fetch the run can have issued is that of the catalog, which
\* update_packages_index issues when the mapping is not cached yet.
C7_NoPackageFetchBeforeVersionError ==
    error = "VersionMismatch" =>
        /\ pc = "failed"
        /\ fullversion # "" /\ fullversion # binary_packages[name].fullversion
        /\ \A i \in 1..Len(events) : events[i].op = "fetch_index"
        /\ Len(events) <= 1
        /\ on_disk = {} /\ copied = {}

\* C7 witness: the version error is raised and the catalog has been fetched.
C7_Witness ==
    /\ error = "VersionMismatch"
    /\ fullversion = "2.0"
    /\ Len(events) = 1 /\ events[1].op = "fetch_index"

\* C8 as stated: when a run ends, well or by the failure of a later step,
\* every extraction directory process_package returned to it is deleted.
C8_AsStated == Ended => Range(extracted_locations) \cap on_disk = {}

\* C9 as stated: after a run that a fetch, checksum or extraction failure
\* aborted, the install directory holds no file copied by that run.
C9_AsStated ==
    (pc = "failed" /\ error \in {"FetchFailure", "ChecksumMismatch", "ExtractFailure"})
        => copied \cap install_dir.files = {}

\* the place of an event in the work on one package
Rank(op) ==
    CASE op = "process_package" -> 0
      [] op = "fetch_binary" -> 1
      [] op = "extract" -> 2
      [] op = "fetch_source" -> 3
      [] op = "install" -> 4
      [] OTHER -> 5

PackageEvents == SelectSeq(events, LAMBDA e : Rank(e.op) < 5)

\* C10: process_package is called once per package, on the root first and
\* then on the resolved dependencies in resolver order, always with the one
\* copy plan; the binary of a package is fetched at most once; and a call
\* has fetched, extracted and installed its package before the next starts.
C10_OncePerPackageInOrder ==
    LET ev == PackageEvents IN
    /\ IsInjective(Processed)
    /\ IsInjective(PkgsOf("fetch_binary"))
    /\ IsPrefix(Processed, <<name>> \o resolved.result)
    /\ pc \in {"validate", "patch", "fix", "cleanup", "archive", "done"}
          => (Processed = <<name>> \o resolved.result
              /\ PkgsOf("install") = Processed)
    /\ \A i \in 1..Len(ev) :
          /\ ev[i].op = "process_package" => ev[i].what = copies
          /\ i = 1 => ev[i].op = "process_package"
          /\ i > 1 =>
                IF ev[i].op = "process_package"
                THEN ev[i - 1].op = "install"
                ELSE /\ ev[i].pkg = ev[i - 1].pkg
                     /\ \/ Rank(ev[i].op) = Rank(ev[i - 1].op) + 1
                        \/ ev[i].op = "fetch_source" /\ ev[i - 1].op = "fetch_source"

\* C10 witness: a successful run over a root and two dependencies, one of
\* which the walk met twice.
C10_Witness ==
    /\ pc = "done"
    /\ Len(Processed) = 3
    /\ Len(get_all_dependents(name, binary_packages, ignore_deps, 1).yielded) = 3
    /\ Acyclic(catalog)

\* ------------------------------------------------------------------------
\* Properties of install_files and check_installed_files
\* ------------------------------------------------------------------------
\* the kind of copy an entry of the plan is written as
IsDirToFile(entry) == entry.src.sep /\ ~entry.dst.sep
IsFileToDir(entry) == ~entry.src.sep /\ entry.dst.sep
IsDirToDir(entry) == entry.src.sep /\ entry.dst.sep

\* the artifact an entry is expected to leave in the install directory
ExpectedPath(entry) ==
    IF IsFileToDir(entry) THEN entry.dst.path \o <<Basename(entry.src.path)>>
    ELSE entry.dst.path

\* ... and whether the tree has it
PresentIn(tree, entry) ==
    IF IsDirToDir(entry)
    THEN /\ entry.dst.path \in tree.dirs
         /\ \E r \in tree.files \cup tree.dirs :
               IsPrefix(entry.dst.path, r) /\ r # entry.dst.path
    ELSE ExpectedPath(entry) \in tree.files \cup tree.dirs

Checked == pc = "checked"

\* C11 as stated: whenever the plan has an entry whose source key ends with
\* the separator and whose destination does not, check_installed_files
\* raises the illegal-copy error, whatever the install directory holds.
C11_AsStated ==
    (Checked /\ \E i \in 1..Len(copies) : IsDirToFile(copies[i]))
        => error = IllegalCopySpec

\* the paths the entries of a plan miss in a tree, in plan order
RECURSIVE ExpectedMissing(_, _)
ExpectedMissing(tree, plan) ==
    IF plan = <<>> THEN <<>>
    ELSE (IF PresentIn(tree, Head(plan)) THEN <<>> ELSE <<ExpectedPath(Head(plan))>>)
         \o ExpectedMissing(tree, Tail(plan))

SourceOk(entry) ==
    /\ ExistsAs(extracted_dir, entry.src)
    /\ IsDir(extracted_dir, entry.src.path) => ListDir(extracted_dir, entry.src.path) # {}

InstalledThenChecked ==
    /\ Checked
    /\ \E i \in 1..Len(events) : events[i].op = "install"

\* C13 as stated: after install_files and then check_installed_files on the
\* same plan and install directory no entry whose source exists (non-empty
\* when a directory) is reported missing; when the destination of such an
\* entry was deleted after the copy, the incomplete-installation error is
\* raised and names the path expected at that destination.
C13_AsStated ==
    InstalledThenChecked =>
        \A i \in 1..Len(copies) :
           SourceOk(copies[i]) =>
              /\ deletes = <<>> => ExpectedPath(copies[i]) \notin Range(missing)
              /\ deletes = <<copies[i].dst.path>> =>
                    /\ error = IncompleteInstallation
                    /\ ExpectedPath(copies[i]) \in Range(missing)

\* ------------------------------------------------------------------------
\* Properties of the patch phase
\* ------------------------------------------------------------------------
\* the calls of fixers the run has made, in order
FixEvents == SelectSeq(events, LAMBDA e : e.op = "fix")
FixesApplied == [i \in 1..Len(FixEvents) |-> FixEvents[i].pkg]

\* C14: the fixers are called in the order of the fixes list, one at a
\* time, each once; a fix that fails is the last one called, its error ends
\* the run, and the run then does neither CLEANUP_TEMP nor ARCHIVE_SOURCES:
\* the extraction directories stay and no new source snapshot is made.
C14_FixesInOrderFailureFatal ==
    /\ IsPrefix(FixesApplied, fixes)
    /\ pc = "fix" => Len(FixesApplied) = fix_i - 1
    /\ pc \in {"cleanup", "archive", "done"} => FixesApplied = fixes
    /\ \A i \in 1..Len(FixEvents) :
          FixEvents[i].what.outcome # "ok" =>
             /\ i = Len(FixEvents)
             /\ events[Len(events)] = FixEvents[i]
             /\ pc = "failed" /\ error = "PatchFailure"
    /\ error = "PatchFailure" =>
          /\ FixEvents # <<>> /\ FixEvents[Len(FixEvents)].what.outcome # "ok"
          /\ "cleanup" \notin Range(trace) /\ "archive" \notin Range(trace)
          /\ Range(extracted_locations) \subseteq on_disk
          /\ saved_sources # "fresh"

\* C14 witness: the first of two fixes has failed; the second was never
\* called and the run is over.
C14_Witness ==
    /\ pc = "failed" /\ error = "PatchFailure"
    /\ Len(fixes) = 2 /\ FixesApplied = <<fixes[1]>>

\* C15: every fix runs with the install directory as working directory;
\* whenever the run is not inside the patch phase the working directory is
\* the one it had before the phase, also after a fix that failed: entering
\* the phase saves the working directory, the phase never changes what it
\* saved, and every way out of the phase, the patch error included, puts
\* the saved directory back in the same step.
C15_CwdScopedToPatch ==
    /\ [](/\ \A i \in 1..Len(FixEvents) : FixEvents[i].what.cwd = "install_dir"
          /\ pc = "fix" => cwd = "install_dir"
          /\ (pc # "fix" /\ original_cwd # "") => cwd = original_cwd
          /\ error = "PatchFailure" => (pc = "failed" /\ cwd = original_cwd))
    /\ [][/\ (pc # "fix" /\ pc' = "fix") => original_cwd' = cwd
          /\ pc = "fix" => original_cwd' = original_cwd
          /\ (pc # "fix" /\ pc' # "fix") => cwd' = cwd]_vars

\* C15 witness: a fix has failed in the install directory and the run is
\* back in the directory it started from, which is not the default one.
C15_Witness ==
    /\ pc = "failed" /\ error = "PatchFailure"
    /\ FixEvents # <<>> /\ FixEvents[1].what.cwd = "install_dir"
    /\ cwd = "base_dir"

\* ------------------------------------------------------------------------
\* Properties of Repository.update_packages_index
\* ------------------------------------------------------------------------
\* C16 as stated: once a call of update_packages_index has completed, no
\* later call on the same Repository fetches the catalog, and every later
\* call returns the mapping of that call, whatever the catalog held.
C16_AsStated ==
    \A i \in 1..Len(events) :
       (events[i].op = "update_packages_index" /\ events[i].what.err = NoError) =>
          \A j \in (i + 1)..Len(events) :
             /\ events[j].op # "fetch_index"
             /\ events[j].op = "update_packages_index" => events[j].what = events[i].what

\* ------------------------------------------------------------------------
\* Properties of the source downloads of a package
\* ------------------------------------------------------------------------
\* the urls the run has fetched as sources of package p, in order
SourceFetches(p) ==
    LET sel == SelectSeq(events, LAMBDA e : e.op = "fetch_source" /\ e.pkg = p)
    IN [i \in 1..Len(sel) |-> sel[i].what]

\* C19 as stated: no two entries of a package's source_download_urls have
\* the same url, and no source url is fetched twice for one package.
C19_AsStated ==
    \A p \in DOMAIN source_download_urls :
       /\ IsInjective(source_download_urls[p])
       /\ IsInjective(SourceFetches(p))

\* a record of the catalog that BinaryPackage.from_index cannot parse: it
\* lacks a key, or its source has a tag or a revision and a url that is not
\* on github
BadRecord(item) ==
    \/ \E k \in RequiredKeys : k \notin DOMAIN item
    \/ /\ item.urls.tag # "" \/ item.urls.revision # ""
       /\ item.urls.url[4] # "github.com"

\* the positions of the good records of the catalog
GoodAt == {i \in 1..Len(items) : ~BadRecord(items[i])}

FromIndexReturned == pc = "returned" /\ sdu # NotCalled

\* the last piece of the url once the slashes at its ends are gone
LastPiece(url) == strip(url)[Len(strip(url))]

\* C17 as stated: with neither tag nor revision, a url that does not end
\* with an archive extension (https://github.com/x/y.git for one) yields
\* no download: the call returns nothing.
C17_AsStated ==
    (FromIndexReturned /\ source_url.tag = "" /\ source_url.revision = ""
        /\ LastPiece(source_url.url) \notin good_extensions)
        => sdu = None

\* C18: for a github url and a tag and/or a revision the call returns a
\* Download whose url is {repo}/archive/{commitish}.tar.gz and whose file
\* name is {repo name}-{commitish}.tar.gz, {repo} being the url without its
\* trailing .git (and without slashes at its end), {repo name} its last
\* path segment, and commitish the revision when one is given, else the tag.
C18_GithubArchiveUrl ==
    FromIndexReturned =>
        \A r \in Repos, sfx \in Suffixes, t \in BOOLEAN :
           (/\ source_url.url = MkUrl("github.com", "x", r, sfx, t)
            /\ source_url.tag # "" \/ source_url.revision # "") =>
              LET rev == IF source_url.revision # "" THEN source_url.revision
                         ELSE source_url.tag
                  kept == IF sfx = ".git" THEN <<>> ELSE IF sfx = "" THEN <<>> ELSE <<sfx>>
              IN /\ sdu.kind = "Download"
                 /\ sdu.url = <<"https:", "/", "/", "github.com", "/", "x", "/", r>>
                              \o kept \o <<"/", "archive", "/", rev, ".tar.gz">>
                 /\ sdu.file_name = <<r>> \o kept \o <<"-", rev, ".tar.gz">>

\* C18 witness: https://github.com/x/y.git/ with a tag and the revision
\* abc123 gave https://github.com/x/y/archive/abc123.tar.gz, y-abc123.tar.gz.
C18_Witness ==
    /\ FromIndexReturned
    /\ source_url = [url |-> MkUrl("github.com", "x", "y", ".git", TRUE),
                     tag |-> "1.0.8", revision |-> "abc123"]
    /\ sdu.url = <<"https:", "/", "/", "github.com", "/", "x", "/", "y",
                   "/", "archive", "/", "abc123", ".tar.gz">>
    /\ sdu.file_name = <<"y", "-", "abc123", ".tar.gz">>

\* ------------------------------------------------------------------------
\* The set of packages get_unique_dependents returns
\* ------------------------------------------------------------------------
\* the packages that every path from the root reaches only by way of a
\* dependency name that is in ignore
OnlyThroughIgnored ==
    Reachable(binary_packages, {}, name) \ Reachable(binary_packages, ignore_deps, name)

\* C21: for an acyclic graph the packages of the returned list are exactly
\* the packages reachable from the root by a non-empty path of dependency
\* edges none of whose names is in ignore: a package reached only by way of
\* an ignored name is absent, a package that also has a path free of
\* ignored names is present, and the root is never in the list.
C21_ExactReachableSet ==
    (Returned /\ Acyclic(binary_packages)) =>
        /\ Range(resolved.result) = Reachable(binary_packages, ignore_deps, name)
        /\ Range(resolved.result) \cap OnlyThroughIgnored = {}
        /\ name \notin Range(resolved.result)

\* C21 witness: A depends on B and C, B depends on C, and B is ignored: B,
\* reached only under its ignored name, is absent; C, which is below B but
\* also a direct dependency, is the whole list.
C21_Witness ==
    /\ Returned /\ Acyclic(binary_packages)
    /\ ignore_deps = {"B"}
    /\ binary_packages[name].depends = <<"B", "C">>
    /\ "B" \in DOMAIN binary_packages /\ "C" \in DOMAIN binary_packages
    /\ binary_packages["B"].depends = <<"C">>
    /\ OnlyThroughIgnored = {"B"}
    /\ resolved.result = <<"C">>

====
